---- MODULE Spec2Model ----
(***************************************************************************)
(* A model of src/transports/http.rs: the HTTP transport of a JSON-RPC 2.0 *)
(* client.                                                                 *)
(*                                                                         *)
(* HttpTransport values live in `transports`; their id field is an         *)
(* Arc<AtomicUsize>, modelled as an index into `arcs`, so that a derived   *)
(* Clone copies the reference and not the counter.  Callers are tasks      *)
(* (threads, or async tasks on an executor); prepare is three program      *)
(* points (the call, the atomic fetch_add, the return), execute is the     *)
(* synchronous request building followed by the two awaits of line 83.     *)
(* Strings that end up inside a header are sequences of bytes.             *)
(***************************************************************************)
EXTENDS Integers, Sequences, FiniteSets, TLC

\* ------------------------------------------------------------------ bounds

\* Width of the AtomicUsize behind `id`, scaled down from the platform's
\* 32 or 64 bits so that a run can reach the wraparound of fetch_add.
UsizeBits == 2
\* Calls started in one run: of prepare and execute together, of prepare
\* alone (enough to wrap the counter around), and of execute alone.
MaxCalls == 2
MaxPrepares == 5
MaxExecutes == 2

\* ------------------------------------------------------------- value model

RECURSIVE Pow2(_)
Pow2(n) == IF n = 0 THEN 1 ELSE 2 * Pow2(n - 1)

\* The number of values of a usize: fetch_add wraps around at this value.
Modulus == Pow2(UsizeBits)

\* The concurrent callers: two threads, or two tasks of one executor.
Tasks == {1, 2}

\* The HttpTransport values (constructed or cloned) one run can hold.
Slots == {1, 2}

\* The values of a RequestId.
Ids == 0..(Modulus - 1)

\* Option<T>: None is the empty sequence, Some(x) the sequence of x alone.
None == <<>>
Some(x) == <<x>>
IsSome(o) == Len(o) = 1
Unwrap(o) == o[1]

\* The url is opaque to the transport.
Urls == {"http://a", "http://b"}

\* Byte strings: "abc".
Tokens == {<<97, 98, 99>>}
\* "u".
Usernames == {<<117>>}
\* "p".
Passwords == {<<112>>}

\* The (method, params) pairs callers prepare.
CallArgs == {<<"foo", <<1, 2>>>>, <<"bar", <<>>>>}

\* serde's view of a Request: a single call or a batch, and whether its
\* Serialize implementation succeeds.  The transport never looks inside.
Requests ==
    { [shape |-> "Single", encodable |-> TRUE],
      [shape |-> "Batch", encodable |-> TRUE],
      [shape |-> "Single", encodable |-> FALSE] }

\* What the network can do to one POST before a response head arrives.
NetFailures == {"connect", "dns", "timeout"}
\* Status codes of a response head: one 2xx and one not.
Statuses == {200, 500}
\* What reading and parsing the body can meet: a body that is a JSON-RPC
\* response, one that is not (no JSON, or JSON of another shape), and a
\* connection that breaks (or times out) while the body is read.
Bodies == {"valid", "invalid", "broken"}

\* ------------------------------------------------------------ byte strings

\* "Bearer " and "Basic " and ":" as bytes.
BearerPrefix == <<66, 101, 97, 114, 101, 114, 32>>
BasicPrefix == <<66, 97, 115, 105, 99, 32>>
Colon == <<58>>
\* "application/json" as bytes.
ApplicationJson ==
    <<97, 112, 112, 108, 105, 99, 97, 116, 105, 111, 110, 47, 106, 115, 111, 110>>

\* The i-th character of the standard base64 alphabet, as its ASCII byte.
Base64Char(i) ==
    IF i < 26 THEN 65 + i
    ELSE IF i < 52 THEN 97 + (i - 26)
    ELSE IF i < 62 THEN 48 + (i - 52)
    ELSE IF i = 62 THEN 43
    ELSE 47

\* '=' pads the last group.
Base64Pad == 61

\* Standard base64 with padding, as basic_auth writes it.
RECURSIVE Base64Encode(_)
Base64Encode(bytes) ==
    IF Len(bytes) = 0 THEN <<>>
    ELSE IF Len(bytes) = 1 THEN
        << Base64Char(bytes[1] \div 4),
           Base64Char((bytes[1] % 4) * 16),
           Base64Pad, Base64Pad >>
    ELSE IF Len(bytes) = 2 THEN
        LET n == (bytes[1] * 256 + bytes[2]) * 4 IN
        << Base64Char(n \div 4096),
           Base64Char((n \div 64) % 64),
           Base64Char(n % 64),
           Base64Pad >>
    ELSE
        LET n == bytes[1] * 65536 + bytes[2] * 256 + bytes[3] IN
        << Base64Char(n \div 262144),
           Base64Char((n \div 4096) % 64),
           Base64Char((n \div 64) % 64),
           Base64Char(n % 64) >>
        \o Base64Encode(SubSeq(bytes, 4, Len(bytes)))

\* http::HeaderValue accepts visible ASCII, space, tab and obs-text only.
ValidHeaderByte(b) == (b >= 32 /\ b # 127) \/ b = 9
ValidHeaderValue(v) == \A i \in 1..Len(v) : ValidHeaderByte(v[i])

\* ----------------------------------------------------- the request builder

\* reqwest::RequestBuilder: the request under construction, or the first
\* error met while building it (then every later step is skipped).
\* self.client.post(&self.url)
Post(url) == [ok |-> TRUE, url |-> url, headers |-> <<>>, body |-> None]

\* .json(request): the serialized body and its Content-Type, or the
\* serializer's error kept in the builder.
Json(builder, request) ==
    IF ~builder.ok THEN builder
    ELSE IF ~request.encodable THEN [builder EXCEPT !.ok = FALSE]
    ELSE [builder EXCEPT
            !.headers = Append(@, [name |-> "content-type",
                                   value |-> ApplicationJson]),
            !.body = Some(request)]

\* A header appended to the builder; a value that is no legal header value
\* turns the builder into an error.
Header(builder, name, value) ==
    IF ~builder.ok THEN builder
    ELSE IF ~ValidHeaderValue(value) THEN [builder EXCEPT !.ok = FALSE]
    ELSE [builder EXCEPT
            !.headers = Append(@, [name |-> name, value |-> value])]

\* builder.bearer_auth(token)
BearerAuth(builder, token) ==
    Header(builder, "authorization", BearerPrefix \o token)

\* builder.basic_auth(username, password), the password an Option.
BasicAuth(builder, username, password) ==
    Header(builder, "authorization",
           BasicPrefix \o Base64Encode(
               username \o Colon \o
               (IF IsSome(password) THEN Unwrap(password) ELSE <<>>)))

\* ------------------------------------------------------------------- state

\* transports, arcs and tasks are the program's state.  origin, built,
\* issued, returns and netIO, like a task's seen, posted and reported, are
\* history: they record what happened and no operation reads them.  calls
\* and budget bound a run.
VARIABLES
    transports,  \* the HttpTransport values, in the order they were made
    origin,      \* per transport: the constructed transport it is a clone of
    built,       \* per transport: the constructor call that made its original
    arcs,        \* the heap of Arc<AtomicUsize> cells: each counter's value
    tasks,       \* per caller: its program point and locals
    issued,      \* per constructed transport: the values fetch_add returned
                 \* to it and its clones, in the order of effect
    returns,     \* per constructed transport: how often prepare returned
                 \* each id on it and its clones
    netIO,       \* POSTs put on the wire so far
    calls,       \* calls started so far
    budget       \* calls the callers of this run make in all

vars ==
    <<transports, origin, built, arcs, tasks, issued, returns, netIO, calls,
      budget>>

\* reqwest::Client::builder().connect_timeout(10s).timeout(30s).build()
ConnectTimeoutSecs == 10
TimeoutSecs == 30
NewClient == [connect_timeout |-> ConnectTimeoutSecs, timeout |-> TimeoutSecs]

Handles == 1..Len(transports)

\* A caller between calls, holding what its last call returned.  self is
\* the transport called; method, params, id are prepare's arguments and
\* local; seen is the largest id returned on the transport's counter when
\* prepare was called; request and builder are send_request's; status and
\* body are what the response brought; posted and reported count the POSTs
\* and the returns of the current execute; prepared and result are the
\* values prepare and execute returned.
IdleTask ==
    [ pc |-> "idle", self |-> 0, method |-> "", params |-> <<>>,
      id |-> 0, seen |-> -1, request |-> None, builder |-> None,
      status |-> 0, body |-> "", posted |-> 0, reported |-> 0,
      prepared |-> None, result |-> None ]

Init ==
    /\ transports = <<>>
    /\ origin = <<>>
    /\ built = <<>>
    /\ arcs = <<>>
    /\ tasks = [t \in Tasks |-> IdleTask]
    /\ issued = <<>>
    /\ returns = <<>>
    /\ netIO = 0
    /\ calls = 0
    /\ budget = MaxCalls

\* ------------------------------------------------------------ construction

\* A constructed transport: `id: Default::default()` is a new Arc holding 0.
Construct(ctor, url, token, username, password) ==
    /\ Len(transports) < Cardinality(Slots)
    /\ arcs' = Append(arcs, 0)
    /\ transports' = Append(transports,
            [ id |-> Len(arcs) + 1,
              url |-> url,
              bearer_auth_token |-> token,
              basic_auth_username |-> username,
              basic_auth_password |-> password,
              client |-> NewClient ])
    /\ origin' = Append(origin, Len(transports) + 1)
    /\ built' = Append(built, [ctor |-> ctor, url |-> url, token |-> token,
                               username |-> username, password |-> password])
    /\ issued' = Append(issued, <<>>)
    /\ returns' = Append(returns, [i \in Ids |-> 0])
    /\ UNCHANGED <<tasks, netIO, calls, budget>>

\* HttpTransport::new(url)
New(url) == Construct("new", url, None, None, None)

\* HttpTransport::new_with_bearer_auth(url, token)
NewWithBearerAuth(url, token) ==
    Construct("new_with_bearer_auth", url, Some(token), None, None)

\* HttpTransport::new_with_basic_auth(url, username, password)
NewWithBasicAuth(url, username, password) ==
    Construct("new_with_basic_auth", url, None, Some(username), Some(password))

\* A Clone that copies the counter's value into a cell of its own, as a
\* hand-written Clone over AtomicUsize::new(self.id.load(..)) would.
CloneForksCounter(h) ==
    /\ Len(transports) < Cardinality(Slots)
    /\ arcs' = Append(arcs, arcs[transports[h].id])
    /\ transports' = Append(transports,
            [transports[h] EXCEPT !.id = Len(arcs) + 1])
    /\ origin' = Append(origin, origin[h])
    /\ built' = Append(built, built[h])
    /\ issued' = Append(issued, <<>>)
    /\ returns' = Append(returns, [i \in Ids |-> 0])
    /\ UNCHANGED <<tasks, netIO, calls, budget>>

\* #[derive(Clone)]: every field cloned; cloning the Arc copies the
\* reference, so the clone counts on the same cell.
Clone(h) ==
    /\ Len(transports) < Cardinality(Slots)
    /\ transports' = Append(transports, transports[h])
    /\ origin' = Append(origin, origin[h])
    /\ built' = Append(built, built[h])
    /\ issued' = Append(issued, <<>>)
    /\ returns' = Append(returns, [i \in Ids |-> 0])
    /\ UNCHANGED <<arcs, tasks, netIO, calls, budget>>

\* ----------------------------------------------------------------- prepare

\* The ids prepare has returned so far on h, its clones and its original.
Returned(h) == {i \in Ids : returns[origin[h]][i] > 0}

\* The largest of them, or -1.
MaxReturned(h) ==
    IF Returned(h) = {} THEN -1
    ELSE CHOOSE i \in Returned(h) : \A j \in Returned(h) : j <= i

\* A caller enters prepare(method, params) on transport h.
PrepareCall(t, h, method, params) ==
    /\ tasks[t].pc = "idle"
    /\ calls < budget
    /\ calls' = calls + 1
    /\ tasks' = [tasks EXCEPT ![t] =
            [IdleTask EXCEPT !.pc = "prepare_fetch_add", !.self = h,
                             !.method = method, !.params = params,
                             !.seen = MaxReturned(h)]]
    /\ UNCHANGED <<transports, origin, built, arcs, issued, returns, netIO, budget>>

\* self.id.fetch_add(1, Ordering::AcqRel): one atomic read-modify-write,
\* wrapping around on overflow, that returns the previous value.
FetchAdd(cell) == arcs' = [arcs EXCEPT ![cell] = (@ + 1) % Modulus]

\* let id = self.id.fetch_add(1, Ordering::AcqRel);
PrepareFetchAdd(t) ==
    /\ tasks[t].pc = "prepare_fetch_add"
    /\ FetchAdd(transports[tasks[t].self].id)
    /\ tasks' = [tasks EXCEPT ![t].pc = "prepare_return",
                              ![t].id = arcs[transports[tasks[t].self].id]]
    /\ issued' = [issued EXCEPT ![origin[tasks[t].self]] =
            Append(@, arcs[transports[tasks[t].self].id])]
    /\ UNCHANGED <<transports, origin, built, returns, netIO, calls, budget>>

\* Call::MethodCall(MethodCall { jsonrpc: Some(Version::V2), id, method, params })
MethodCall(id, method, params) ==
    [ variant |-> "MethodCall", jsonrpc |-> Some("2.0"), id |-> id,
      method |-> method, params |-> params ]

\* A prepare that reads the counter again for the call's id instead of
\* using the value fetch_add returned.
PrepareReturnRereads(t) ==
    /\ tasks[t].pc = "prepare_return"
    /\ tasks' = [tasks EXCEPT
            ![t].pc = "idle",
            ![t].prepared = Some(<<tasks[t].id,
                MethodCall(arcs[transports[tasks[t].self].id],
                           tasks[t].method, tasks[t].params)>>)]
    /\ returns' = [returns EXCEPT
            ![origin[tasks[t].self]][tasks[t].id] = @ + 1]
    /\ UNCHANGED <<transports, origin, built, arcs, issued, netIO, calls, budget>>

\* (id, call)
PrepareReturn(t) ==
    /\ tasks[t].pc = "prepare_return"
    /\ tasks' = [tasks EXCEPT
            ![t].pc = "idle",
            ![t].prepared = Some(<<tasks[t].id,
                MethodCall(tasks[t].id, tasks[t].method, tasks[t].params)>>)]
    /\ returns' = [returns EXCEPT
            ![origin[tasks[t].self]][tasks[t].id] = @ + 1]
    /\ UNCHANGED <<transports, origin, built, arcs, issued, netIO, calls, budget>>

\* ----------------------------------------------------------------- execute

\* A send_request that leaves the password out of the basic credentials.
SendRequestBuilderNoPassword(self, request) ==
    LET posted == Json(Post(self.url), request)
        bearer == IF IsSome(self.bearer_auth_token)
                  THEN BearerAuth(posted, Unwrap(self.bearer_auth_token))
                  ELSE posted
    IN  IF IsSome(self.basic_auth_username)
        THEN BasicAuth(bearer, Unwrap(self.basic_auth_username), None)
        ELSE bearer

\* Lines 70 to 81 of send_request: the POST with its JSON body, then the
\* bearer token if there is one, then the basic credentials if there is a
\* username.  The two tests are independent of each other.
SendRequestBuilder(self, request) ==
    LET posted == Json(Post(self.url), request)
        bearer == IF IsSome(self.bearer_auth_token)
                  THEN BearerAuth(posted, Unwrap(self.bearer_auth_token))
                  ELSE posted
    IN  IF IsSome(self.basic_auth_username)
        THEN BasicAuth(bearer, Unwrap(self.basic_auth_username),
                       self.basic_auth_password)
        ELSE bearer

\* Result<Response>: Ok(response), or Err with reqwest's kind of error and
\* what caused it.
Ok == [ok |-> TRUE, error |-> "none", cause |-> "none"]
Err(kind, cause) == [ok |-> FALSE, error |-> kind, cause |-> cause]

\* The caller gets `result` back from execute.
Return(t, result) ==
    [tasks EXCEPT ![t].pc = "idle",
                  ![t].result = Some(result),
                  ![t].reported = @ + 1]

\* A caller enters execute(_id, request) on transport h, which runs
\* send_request up to the first await: the builder is complete.
ExecuteCall(t, h, id, request) ==
    /\ tasks[t].pc = "idle"
    /\ calls < budget
    /\ calls' = calls + 1
    /\ tasks' = [tasks EXCEPT ![t] =
            [IdleTask EXCEPT !.pc = "send", !.self = h,
                             !.request = Some(request),
                             !.builder = Some(SendRequestBuilder(
                                                transports[h], request))]]
    /\ UNCHANGED <<transports, origin, built, arcs, issued, returns, netIO, budget>>

\* A send that puts the request on the wire without looking at the
\* builder's error.
SendIgnoresBuilderError(t) ==
    /\ tasks[t].pc = "send"
    /\ netIO' = netIO + 1
    /\ tasks' = [tasks EXCEPT ![t].pc = "await_response", ![t].posted = @ + 1]
    /\ UNCHANGED <<transports, origin, built, arcs, issued, returns, calls, budget>>

\* A send that allocates an id of its own for the request it sends.
SendAllocatesId(t) ==
    /\ tasks[t].pc = "send"
    /\ FetchAdd(transports[tasks[t].self].id)
    /\ IF Unwrap(tasks[t].builder).ok
       THEN /\ netIO' = netIO + 1
            /\ tasks' = [tasks EXCEPT ![t].pc = "await_response",
                                      ![t].posted = @ + 1]
       ELSE /\ tasks' = Return(t, Err("Builder", "serialize"))
            /\ UNCHANGED netIO
    /\ UNCHANGED <<transports, origin, built, issued, returns, calls, budget>>

\* builder.send(): a builder that holds an error resolves to that error at
\* once; otherwise the request goes out and the task awaits the response.
Send(t) ==
    /\ tasks[t].pc = "send"
    /\ IF Unwrap(tasks[t].builder).ok
       THEN /\ netIO' = netIO + 1
            /\ tasks' = [tasks EXCEPT ![t].pc = "await_response",
                                      ![t].posted = @ + 1]
       ELSE /\ tasks' = Return(t, Err("Builder", "serialize"))
            /\ UNCHANGED netIO
    /\ UNCHANGED <<transports, origin, built, arcs, issued, returns, calls, budget>>

\* A transport that sends the request again when the network fails.
NetworkFailsAndRetries(t, failure) ==
    /\ tasks[t].pc = "await_response"
    /\ tasks' = [tasks EXCEPT ![t].pc = "send"]
    /\ UNCHANGED <<transports, origin, built, arcs, issued, returns, netIO, calls, budget>>

\* .send().await?: no response head arrives (connection refused, DNS
\* failure, one of the client's two timeouts); `?` returns the error.
NetworkFails(t, failure) ==
    /\ tasks[t].pc = "await_response"
    /\ tasks' = Return(t, Err("Request", failure))
    /\ UNCHANGED <<transports, origin, built, arcs, issued, returns, netIO, calls, budget>>

\* .send().await? yields a Response, whatever its status.
ResponseArrives(t, status) ==
    /\ tasks[t].pc = "await_response"
    /\ tasks' = [tasks EXCEPT ![t].pc = "await_body", ![t].status = status]
    /\ UNCHANGED <<transports, origin, built, arcs, issued, returns, netIO, calls, budget>>

\* A send_request that calls error_for_status() before it reads the body.
JsonResultChecksStatus(status, body) ==
    IF status >= 400 THEN Err("Status", "status")
    ELSE IF body = "broken" THEN Err("Body", "broken")
    ELSE IF body = "valid" THEN Ok
    ELSE Err("Decode", "invalid")

\* response.json().await?: the whole body is read, then parsed as Response.
JsonResult(status, body) ==
    IF body = "broken" THEN Err("Body", "broken")
    ELSE IF body = "valid" THEN Ok
    ELSE Err("Decode", "invalid")

BodyArrives(t, body) ==
    /\ tasks[t].pc = "await_body"
    /\ tasks' = [Return(t, JsonResult(tasks[t].status, body))
                    EXCEPT ![t].body = body]
    /\ UNCHANGED <<transports, origin, built, arcs, issued, returns, netIO, calls, budget>>

\* ----------------------------------------------------------- specification

\* The constructors and Clone, called by the program that owns the callers.
Build ==
    \/ \E url \in Urls : New(url)
    \/ \E url \in Urls, token \in Tokens : NewWithBearerAuth(url, token)
    \/ \E url \in Urls, username \in Usernames, password \in Passwords :
            NewWithBasicAuth(url, username, password)
    \/ \E h \in Handles : Clone(h)

\* The steps of prepare.
Prepare ==
    \/ \E t \in Tasks, h \in Handles, a \in CallArgs :
            PrepareCall(t, h, a[1], a[2])
    \/ \E t \in Tasks : PrepareFetchAdd(t)
    \/ \E t \in Tasks : PrepareReturn(t)

\* The steps of execute.
Execute ==
    \/ \E t \in Tasks, h \in Handles, id \in {0, Modulus - 1}, r \in Requests :
            ExecuteCall(t, h, id, r)
    \/ \E t \in Tasks : Send(t)
    \/ \E t \in Tasks, f \in NetFailures : NetworkFails(t, f)
    \/ \E t \in Tasks, status \in Statuses : ResponseArrives(t, status)
    \/ \E t \in Tasks, body \in Bodies : BodyArrives(t, body)

\* Every operation of the transport, in any interleaving.
Next == Build \/ Prepare \/ Execute

Spec == Init /\ [][Next]_vars

\* Callers that only allocate ids, often enough to wrap the counter.
InitIds ==
    /\ transports = <<>>
    /\ origin = <<>>
    /\ built = <<>>
    /\ arcs = <<>>
    /\ tasks = [t \in Tasks |-> IdleTask]
    /\ issued = <<>>
    /\ returns = <<>>
    /\ netIO = 0
    /\ calls = 0
    /\ budget = MaxPrepares

NextIds == Build \/ Prepare

SpecIds == InitIds /\ [][NextIds]_vars

\* Callers that only send requests.
InitHttp ==
    /\ transports = <<>>
    /\ origin = <<>>
    /\ built = <<>>
    /\ arcs = <<>>
    /\ tasks = [t \in Tasks |-> IdleTask]
    /\ issued = <<>>
    /\ returns = <<>>
    /\ netIO = 0
    /\ calls = 0
    /\ budget = MaxExecutes

NextHttp == Build \/ Execute

SpecHttp == InitHttp /\ [][NextHttp]_vars

\* Any value the struct's three Option fields can hold, also those no
\* constructor builds, sent by callers that only send requests.
InitRepr ==
    /\ \E url \in Urls,
          token \in {None} \cup {Some(x) : x \in Tokens},
          username \in {None} \cup {Some(x) : x \in Usernames},
          password \in {None} \cup {Some(x) : x \in Passwords} :
            /\ transports = << [ id |-> 1, url |-> url,
                                 bearer_auth_token |-> token,
                                 basic_auth_username |-> username,
                                 basic_auth_password |-> password,
                                 client |-> NewClient ] >>
            /\ built = << [ ctor |-> "literal", url |-> url, token |-> token,
                            username |-> username, password |-> password ] >>
    /\ origin = <<1>>
    /\ arcs = <<0>>
    /\ tasks = [t \in Tasks |-> IdleTask]
    /\ issued = << <<>> >>
    /\ returns = << [i \in Ids |-> 0] >>
    /\ netIO = 0
    /\ calls = 0
    /\ budget = MaxExecutes

NextRepr == (\E h \in Handles : Clone(h)) \/ Execute

SpecRepr == InitRepr /\ [][NextRepr]_vars

\* ------------------------------------------------------- id allocation

\* The constructed transports: each stands for itself and its clones.
Originals == {h \in Handles : origin[h] = h}

\* A caller whose last call was a prepare that has returned.
Prepared(t) == tasks[t].pc = "idle" /\ IsSome(tasks[t].prepared)

\* The sequence 0, 1, .., n-1.
UpTo(n) == [i \in 1..n |-> i - 1]

\* C1: the ids prepare returns on one transport and its clones, to any
\* callers in any interleaving, are pairwise distinct as long as fewer
\* allocations were made on them than a usize has values.
DistinctIdsAcrossClones ==
    \A l \in Originals :
        Len(issued[l]) < Modulus => \A i \in Ids : returns[l][i] <= 1

\* Two callers hold ids from prepares that overlapped in time (neither had
\* returned when the other was called), one on a transport and one on its
\* clone.
ConcurrentPreparesOnClones ==
    /\ Prepared(1) /\ Prepared(2)
    /\ tasks[1].self # tasks[2].self
    /\ origin[tasks[1].self] = origin[tasks[2].self]
    /\ Len(issued[origin[tasks[1].self]]) < Modulus
    /\ tasks[1].seen < tasks[2].id
    /\ tasks[2].seen < tasks[1].id

\* C2: from a new transport's counter of 0, the i-th allocation to take
\* effect returns i-1: after n of them the ids issued are exactly 0..n-1,
\* the counter is n, and a prepare called after another returned holds a
\* larger id than that one.
IdsCountUpFromZero ==
    /\ \A l \in Originals :
        /\ issued[l] = UpTo(Len(issued[l]))
        /\ arcs[transports[l].id] = Len(issued[l])
    /\ \A t \in Tasks : Prepared(t) => tasks[t].id > tasks[t].seen

\* C3: no id is issued twice, however many prepare calls are made, also
\* past the counter's largest value.
NoIdIssuedTwice ==
    \A l \in Originals :
        \A i, j \in 1..Len(issued[l]) :
            i # j => issued[l][i] # issued[l][j]

\* C9: prepare returns the pair (id, call) of the one id its allocation
\* yielded and a MethodCall of version 2.0 with that id and with the method
\* and the params it was given; it has no way out but that return.
PrepareBuildsMethodCall ==
    \A t \in Tasks :
        /\ tasks[t].pc = "prepare_fetch_add" => ENABLED PrepareFetchAdd(t)
        /\ tasks[t].pc = "prepare_return" => ENABLED PrepareReturn(t)
        /\ tasks[t].pc \in {"prepare_fetch_add", "prepare_return"} =>
                tasks[t].result = None
        /\ Prepared(t) =>
            LET id == Unwrap(tasks[t].prepared)[1]
                call == Unwrap(tasks[t].prepared)[2]
            IN  /\ tasks[t].result = None
                /\ id = tasks[t].id
                /\ call.variant = "MethodCall"
                /\ call.id = id
                /\ call.jsonrpc = Some("2.0")
                /\ call.method = tasks[t].method
                /\ call.params = tasks[t].params
                /\ <<call.method, call.params>> \in CallArgs

\* Two callers hold the results of overlapping prepares with different
\* arguments on one counter.
ConcurrentPreparesReturned ==
    /\ Prepared(1) /\ Prepared(2)
    /\ origin[tasks[1].self] = origin[tasks[2].self]
    /\ tasks[1].method # tasks[2].method
    /\ tasks[1].seen < tasks[2].id
    /\ tasks[2].seen < tasks[1].id
    /\ Unwrap(tasks[1].prepared)[2].id # Unwrap(tasks[2].prepared)[2].id

\* ------------------------------------------------------------ credentials

\* The Authorization headers of a request, in the order they were added.
AuthHeaders(builder) ==
    SelectSeq(builder.headers, LAMBDA hd : hd.name = "authorization")

StartsWith(v, prefix) ==
    Len(v) >= Len(prefix) /\ SubSeq(v, 1, Len(prefix)) = prefix

\* The index of a base64 character in the alphabet of RFC 4648, or -1.
Base64Index(c) ==
    IF c >= 65 /\ c <= 90 THEN c - 65
    ELSE IF c >= 97 /\ c <= 122 THEN c - 71
    ELSE IF c >= 48 /\ c <= 57 THEN c + 4
    ELSE IF c = 43 THEN 62
    ELSE IF c = 47 THEN 63
    ELSE -1

\* The bytes a padded base64 text of RFC 4648 stands for; <<-1>> for a text
\* that is none.
RECURSIVE Base64Decode(_)
Base64Decode(text) ==
    IF Len(text) = 0 THEN <<>>
    ELSE IF Len(text) < 4 THEN <<-1>>
    ELSE
        LET s1 == Base64Index(text[1])
            s2 == Base64Index(text[2])
            s3 == Base64Index(text[3])
            s4 == Base64Index(text[4])
        IN  IF s1 < 0 \/ s2 < 0 THEN <<-1>>
            ELSE IF text[3] = 61 /\ text[4] = 61 THEN
                IF Len(text) = 4 /\ s2 % 16 = 0
                THEN << s1 * 4 + (s2 \div 16) >>
                ELSE <<-1>>
            ELSE IF text[4] = 61 THEN
                IF Len(text) = 4 /\ s3 >= 0 /\ s3 % 4 = 0
                THEN << s1 * 4 + (s2 \div 16),
                        (s2 % 16) * 16 + (s3 \div 4) >>
                ELSE <<-1>>
            ELSE IF s3 < 0 \/ s4 < 0 THEN <<-1>>
            ELSE << s1 * 4 + (s2 \div 16),
                    (s2 % 16) * 16 + (s3 \div 4),
                    (s3 % 4) * 64 + s4 >>
                 \o Base64Decode(SubSeq(text, 5, Len(text)))

\* A caller whose execute has put its request on the wire.
Outgoing(t) == IsSome(tasks[t].builder) /\ tasks[t].posted > 0

\* C4: a request sent through a transport made by a constructor, or through
\* a clone of one, carries at most one Authorization header, fixed by the
\* constructor call: none after new, "Bearer " and the token after
\* new_with_bearer_auth, "Basic " and the base64 text of user:pass after
\* new_with_basic_auth.
AuthorizationFollowsConstructor ==
    \A t \in Tasks :
        Outgoing(t) =>
            LET auth == AuthHeaders(Unwrap(tasks[t].builder))
                made == built[tasks[t].self]
            IN  /\ Len(auth) <= 1
                /\ made.ctor = "new" => auth = <<>>
                /\ made.ctor = "new_with_bearer_auth" =>
                    /\ Len(auth) = 1
                    /\ auth[1].value = BearerPrefix \o Unwrap(made.token)
                    /\ ~StartsWith(auth[1].value, BasicPrefix)
                /\ made.ctor = "new_with_basic_auth" =>
                    /\ Len(auth) = 1
                    /\ StartsWith(auth[1].value, BasicPrefix)
                    /\ ~StartsWith(auth[1].value, BearerPrefix)
                    /\ Base64Decode(SubSeq(auth[1].value, Len(BasicPrefix) + 1,
                                           Len(auth[1].value)))
                        = Unwrap(made.username) \o Colon
                            \o Unwrap(made.password)

\* Requests are on the wire through a basic-auth transport and through a
\* bearer transport at once, each with its one header.
RequestsSentWithBothSchemes ==
    \E t, u \in Tasks :
        /\ Outgoing(t) /\ Outgoing(u)
        /\ built[tasks[t].self].ctor = "new_with_basic_auth"
        /\ built[tasks[u].self].ctor = "new_with_bearer_auth"
        /\ Len(AuthHeaders(Unwrap(tasks[t].builder))) = 1
        /\ Len(AuthHeaders(Unwrap(tasks[u].builder))) = 1

Executing(t) == IsSome(tasks[t].request)
Executed(t) == Executing(t) /\ tasks[t].pc = "idle"

ClassifiedByPlaceNotStatus ==
    \A t \in Tasks :
        (Executed(t) /\ tasks[t].posted = 1) =>
            LET r == Unwrap(tasks[t].result) IN
            /\ tasks[t].status = 0 =>
                ~r.ok /\ r.error = "Request" /\ r.cause \in NetFailures
            /\ tasks[t].status # 0 =>
                /\ tasks[t].body = "valid" => r = Ok
                /\ tasks[t].body = "invalid" => ~r.ok /\ r.error = "Decode"
                /\ tasks[t].body = "broken" => ~r.ok /\ r.error = "Body"
            /\ r.error = "Request" => tasks[t].status = 0
            /\ r.error = "Decode" => tasks[t].body = "invalid"

\* A valid body under status 500 came back as Ok, and a body that is no
\* response under status 200 as a decode error.
OkUnder500AndDecodeErrorUnder200 ==
    \E t, u \in Tasks :
        /\ Executed(t) /\ tasks[t].status = 500 /\ tasks[t].body = "valid"
        /\ Unwrap(tasks[t].result) = Ok
        /\ Executed(u) /\ tasks[u].status = 200 /\ tasks[u].body = "invalid"
        /\ Unwrap(tasks[u].result).error = "Decode"

\* C8: an execute whose request cannot be encoded to JSON returns an error
\* and never puts a POST on the wire.
UnencodableRequestNeverPosted ==
    \A t \in Tasks :
        (Executing(t) /\ ~Unwrap(tasks[t].request).encodable) =>
            /\ tasks[t].posted = 0
            /\ tasks[t].pc \in {"send", "idle"}
            /\ Executed(t) =>
                tasks[t].result = Some(Err("Builder", "serialize"))

\* An execute of a request that cannot be encoded has returned, and nothing
\* was sent.
UnencodableRequestReturned ==
    \E t \in Tasks :
        /\ Executed(t)
        /\ ~Unwrap(tasks[t].request).encodable
        /\ ~Unwrap(tasks[t].result).ok
        /\ netIO = 0

\* ------------------------------------------------------------------ frame

PreparePoints == {"prepare_fetch_add", "prepare_return"}
ExecutePoints == {"send", "await_response", "await_body"}

\* The steps a caller takes inside prepare, the fetch_add among them, and
\* inside execute.
PrepareStep(t) ==
    /\ tasks'[t] # tasks[t]
    /\ tasks[t].pc \in PreparePoints \/ tasks'[t].pc \in PreparePoints
FetchStep(t) ==
    tasks[t].pc = "prepare_fetch_add" /\ tasks'[t].pc = "prepare_return"
ExecuteStep(t) ==
    /\ tasks'[t] # tasks[t]
    /\ tasks[t].pc \in ExecutePoints \/ tasks'[t].pc \in ExecutePoints
CloneStep ==
    /\ Len(transports') = Len(transports) + 1
    /\ origin'[Len(transports')] # Len(transports')

\* C10: no operation changes a transport's url or credentials; a counter
\* changes only in prepare's fetch_add, by exactly 1 (in usize arithmetic);
\* prepare does no network I/O; execute, whatever it is given and however
\* it ends, and clone leave every counter as it was.
OnlyPrepareMovesTheCounter ==
    [][ /\ \A h \in Handles : transports'[h] = transports[h]
        /\ \A c \in 1..Len(arcs) :
            arcs'[c] # arcs[c] =>
                \E t \in Tasks :
                    FetchStep(t) /\ transports[tasks[t].self].id = c
        /\ \A t \in Tasks :
            /\ FetchStep(t) =>
                arcs' = [arcs EXCEPT ![transports[tasks[t].self].id] =
                            (@ + 1) % Modulus]
            /\ PrepareStep(t) => netIO' = netIO
            /\ ExecuteStep(t) => arcs' = arcs
        /\ CloneStep => arcs' = arcs
      ]_vars

\* A prepare and an execute have returned on a transport and its clone: the
\* counter they share is 1 and one POST was sent.
PreparedAndExecutedOnClones ==
    \E t, u \in Tasks :
        /\ Prepared(t) /\ Executed(u)
        /\ tasks[t].self # tasks[u].self
        /\ origin[tasks[t].self] = origin[tasks[u].self]
        /\ arcs[transports[tasks[t].self].id] = 1
        /\ netIO = 1
====
